---- MODULE Spec2Model ----
\* Model of scripts/sync-gallery.mjs: one invocation of the script is a run of
\* the pipeline  env check -> getToken -> resolve share -> list children ->
\* filter/sort/slice/desired -> download loop -> delete phase -> writeIndexJson.
\* Strings are sequences of one-character strings, so that toLowerCase, trim,
\* split, the regular expressions and the template `${id}.${ext}` are computed.
EXTENDS Integers, Sequences, FiniteSets, TLC

VARIABLES
    env,              \* process.env: the variables the script reads (INDEX_FILE,
                      \* which only names the index file, aside)
    dir,              \* names of the files in GALLERY_DIR (index file aside)
    index,            \* the file at INDEX_PATH: [written, names]
    pc,               \* position of the script
    err,              \* the step whose exception ended the run ("" when none)
    run,              \* number of the current invocation
    remote,           \* the remote folder's children: [known, value]
    desired,          \* the Map `desired`, as its entries in insertion order
    orderedFileNames, \* the array `orderedFileNames`
    di,               \* position of the download loop in desired.entries()
    net,              \* network calls made by this run, per kind
    downloaded,       \* files written by downloadToFile in this run
    deleted,          \* files unlinked in this run
    wrote,            \* whether this run called writeIndexJson successfully
    dirAtStart,       \* dir when this run started
    prev              \* how the previous run ended: [ok, names]

vars == <<env, dir, index, pc, err, run, remote, desired,
          orderedFileNames, di, net, downloaded, deleted, wrote, dirAtStart, prev>>

-----------------------------------------------------------------------------
\* Bounds of the model.

\* Longest remote listing.
MaxItems == 2
\* Number of invocations of the script in one behaviour.
MaxRuns == 2

-----------------------------------------------------------------------------
\* Strings.

\* An absent environment variable / an undefined property.
Undefined == [defined |-> FALSE, s |-> <<>>]
Str(s) == [defined |-> TRUE, s |-> s]
\* JavaScript truthiness of a string-or-undefined value.
Truthy(v) == v.defined /\ v.s # <<>>
\* `v || fallback` for string-or-undefined values.
OrElse(v, fallback) == IF Truthy(v) THEN v.s ELSE fallback

Uppers == {"A", "B", "C", "D", "E", "F", "G", "H", "I", "J", "K", "L", "M", "N",
           "O", "P", "Q", "R", "S", "T", "U", "V", "W", "X", "Y", "Z"}
Lowers == {"a", "b", "c", "d", "e", "f", "g", "h", "i", "j", "k", "l", "m", "n",
           "o", "p", "q", "r", "s", "t", "u", "v", "w", "x", "y", "z"}
Digits == {"0", "1", "2", "3", "4", "5", "6", "7", "8", "9"}

\* The lower-case letter of each upper-case letter.
LowerOf ==
    ("A" :> "a") @@ ("B" :> "b") @@ ("C" :> "c") @@ ("D" :> "d") @@ ("E" :> "e") @@ ("F" :> "f") @@
    ("G" :> "g") @@ ("H" :> "h") @@ ("I" :> "i") @@ ("J" :> "j") @@ ("K" :> "k") @@ ("L" :> "l") @@
    ("M" :> "m") @@ ("N" :> "n") @@ ("O" :> "o") @@ ("P" :> "p") @@ ("Q" :> "q") @@ ("R" :> "r") @@
    ("S" :> "s") @@ ("T" :> "t") @@ ("U" :> "u") @@ ("V" :> "v") @@ ("W" :> "w") @@ ("X" :> "x") @@
    ("Y" :> "y") @@ ("Z" :> "z")
\* The position of each lower-case letter in the alphabet.
LetterRank ==
    ("a" :> 1) @@ ("b" :> 2) @@ ("c" :> 3) @@ ("d" :> 4) @@ ("e" :> 5) @@ ("f" :> 6) @@
    ("g" :> 7) @@ ("h" :> 8) @@ ("i" :> 9) @@ ("j" :> 10) @@ ("k" :> 11) @@ ("l" :> 12) @@
    ("m" :> 13) @@ ("n" :> 14) @@ ("o" :> 15) @@ ("p" :> 16) @@ ("q" :> 17) @@ ("r" :> 18) @@
    ("s" :> 19) @@ ("t" :> 20) @@ ("u" :> 21) @@ ("v" :> 22) @@ ("w" :> 23) @@ ("x" :> 24) @@
    ("y" :> 25) @@ ("z" :> 26)
\* The value of each digit.
DigitValue ==
    ("0" :> 0) @@ ("1" :> 1) @@ ("2" :> 2) @@ ("3" :> 3) @@ ("4" :> 4) @@ ("5" :> 5) @@
    ("6" :> 6) @@ ("7" :> 7) @@ ("8" :> 8) @@ ("9" :> 9)

IsUpper(c) == c \in Uppers
IsLower(c) == c \in Lowers
IsDigit(c) == c \in Digits
DigitVal(c) == DigitValue[c]

LowerChar(c) == IF IsUpper(c) THEN LowerOf[c] ELSE c
toLowerCase(s) == [i \in DOMAIN s |-> LowerChar(s[i])]

startsWith(s, p) == Len(s) >= Len(p) /\ SubSeq(s, 1, Len(p)) = p
endsWith(s, p) == Len(s) >= Len(p) /\ SubSeq(s, Len(s) - Len(p) + 1, Len(s)) = p
includes(s, p) == \E i \in 0..(Len(s) - Len(p)) : SubSeq(s, i + 1, i + Len(p)) = p

RECURSIVE trimStart(_)
trimStart(s) == IF s # <<>> /\ Head(s) = " " THEN trimStart(Tail(s)) ELSE s
RECURSIVE trimEnd(_)
trimEnd(s) == IF s # <<>> /\ s[Len(s)] = " " THEN trimEnd(SubSeq(s, 1, Len(s) - 1)) ELSE s
trim(s) == trimEnd(trimStart(s))

\* s.split(","): the pieces between commas, empty pieces included.
RECURSIVE split(_)
split(s) ==
    IF \E i \in DOMAIN s : s[i] = ","
    THEN LET i == CHOOSE k \in DOMAIN s : s[k] = "," /\ \A j \in 1..(k - 1) : s[j] # ","
         IN <<SubSeq(s, 1, i - 1)>> \o split(SubSeq(s, i + 1, Len(s)))
    ELSE <<s>>

\* Number(v): NaN for undefined and for text that is no numeric literal, 0 for
\* empty or blank text, the value of an optionally signed decimal integer.
NaN == [finite |-> FALSE, val |-> 0]
Num(n) == [finite |-> TRUE, val |-> n]
RECURSIVE DecimalValue(_)
DecimalValue(s) == IF s = <<>> THEN 0 ELSE 10 * DecimalValue(SubSeq(s, 1, Len(s) - 1)) + DigitVal(s[Len(s)])
AllDigits(s) == s # <<>> /\ \A i \in DOMAIN s : IsDigit(s[i])
Number(v) ==
    IF ~v.defined THEN NaN
    ELSE LET t == trim(v.s) IN
         IF t = <<>> THEN Num(0)
         ELSE IF AllDigits(t) THEN Num(DecimalValue(t))
         ELSE IF Head(t) = "-" /\ AllDigits(Tail(t)) THEN Num(0 - DecimalValue(Tail(t)))
         ELSE IF Head(t) = "+" /\ AllDigits(Tail(t)) THEN Num(DecimalValue(Tail(t)))
         ELSE NaN

-----------------------------------------------------------------------------
\* Configuration (lines 20-46).

DefaultMax == 200
DefaultExts == <<"j","p","g",",","j","p","e","g",",","p","n","g",",","w","e","b","p">>

\* The check with the folder URL forgotten.
RequiredMissingNoUrl ==
    \/ ~Truthy(env.TENANT_ID)
    \/ ~Truthy(env.CLIENT_ID)
    \/ ~Truthy(env.CLIENT_SECRET)

RequiredMissing ==
    \/ ~Truthy(env.TENANT_ID)
    \/ ~Truthy(env.CLIENT_ID)
    \/ ~Truthy(env.CLIENT_SECRET)
    \/ ~Truthy(env.SP_FOLDER_SHARE_URL)

MAX == IF Number(env.MAX_IMAGES).finite THEN Number(env.MAX_IMAGES).val ELSE DefaultMax

deleteMissing == toLowerCase(OrElse(env.DELETE_MISSING, <<>>)) = <<"t","r","u","e">>

allowedExts ==
    LET parts == split(OrElse(env.INCLUDE_EXTS, DefaultExts))
    IN {toLowerCase(trim(parts[i])) : i \in DOMAIN parts} \ {<<>>}

-----------------------------------------------------------------------------
\* extFromName (lines 58-70).

IsAlnum(c) == IsUpper(c) \/ IsLower(c) \/ IsDigit(c)

\* m[1] of /\.([a-zA-Z0-9]+)$/.exec(name), lower-cased; <<>> when no match.
NameExt(name) ==
    LET Dots == {i \in DOMAIN name : /\ name[i] = "."
                                     /\ i < Len(name)
                                     /\ \A j \in (i + 1)..Len(name) : IsAlnum(name[j])}
    IN IF Dots = {} THEN <<>>
       ELSE toLowerCase(SubSeq(name, (CHOOSE i \in Dots : TRUE) + 1, Len(name)))

\* The fallback from the media type, first match in the order of the code.
ExtFromMime(mimeType) ==
    LET mt == toLowerCase(mimeType) IN
    IF includes(mt, <<"j","p","e","g">>) THEN <<"j","p","e","g">>
    ELSE IF includes(mt, <<"j","p","g">>) THEN <<"j","p","g">>
    ELSE IF includes(mt, <<"p","n","g">>) THEN <<"p","n","g">>
    ELSE IF includes(mt, <<"w","e","b","p">>) THEN <<"w","e","b","p">>
    ELSE <<>>

extFromName(name, mimeType) ==
    LET ext == NameExt(name) IN
    IF ext # <<>> /\ ext \in allowedExts THEN ext ELSE ExtFromMime(mimeType)

-----------------------------------------------------------------------------
\* a.name.localeCompare(b.name, undefined, {numeric: true}) (line 159):
\* whitespace < punctuation < numbers < letters, a run of digits compared by
\* its value, letters by alphabet position whatever their case, and case
\* (lower first) deciding only between names that are otherwise equal.

PunctRank == ("_" :> 1) @@ ("-" :> 2) @@ ("," :> 3) @@ ("." :> 4) @@ ("/" :> 5)
IsPunct(c) == c \in DOMAIN PunctRank

DigitRun(s) ==
    IF \E i \in DOMAIN s : ~IsDigit(s[i])
    THEN (CHOOSE i \in DOMAIN s : ~IsDigit(s[i]) /\ \A j \in 1..(i - 1) : IsDigit(s[j])) - 1
    ELSE Len(s)

CharKey(c) ==
    IF c = " " THEN <<0, 0>>
    ELSE IF IsPunct(c) THEN <<1, PunctRank[c]>>
    ELSE <<3, LetterRank[LowerChar(c)]>>

RECURSIVE CollationKey(_)
CollationKey(s) ==
    IF s = <<>> THEN <<>>
    ELSE IF IsDigit(Head(s))
         THEN <<<<2, DecimalValue(SubSeq(s, 1, DigitRun(s)))>>>>
              \o CollationKey(SubSeq(s, DigitRun(s) + 1, Len(s)))
         ELSE <<CharKey(Head(s))>> \o CollationKey(Tail(s))

RECURSIVE CompareKeys(_, _)
CompareKeys(a, b) ==
    IF a = <<>> /\ b = <<>> THEN 0
    ELSE IF a = <<>> THEN -1
    ELSE IF b = <<>> THEN 1
    ELSE IF Head(a) = Head(b) THEN CompareKeys(Tail(a), Tail(b))
    ELSE IF \/ Head(a)[1] < Head(b)[1]
            \/ Head(a)[1] = Head(b)[1] /\ Head(a)[2] < Head(b)[2] THEN -1
    ELSE 1

RECURSIVE CompareCase(_, _)
CompareCase(a, b) ==
    IF a = <<>> \/ b = <<>> THEN 0
    ELSE IF IsLower(Head(a)) /\ IsUpper(Head(b)) THEN -1
    ELSE IF IsUpper(Head(a)) /\ IsLower(Head(b)) THEN 1
    ELSE CompareCase(Tail(a), Tail(b))

localeCompare(a, b) ==
    LET primary == CompareKeys(CollationKey(a), CollationKey(b))
    IN IF primary # 0 THEN primary ELSE CompareCase(a, b)

\* The listing left in the order the remote returned it.
sortSkipped(s) == s

\* items.sort(comparator): the sort is stable.
RECURSIVE InsertSorted(_, _)
InsertSorted(sorted, x) ==
    IF sorted = <<>> THEN <<x>>
    ELSE IF localeCompare(sorted[Len(sorted)].name, x.name) <= 0 THEN Append(sorted, x)
    ELSE Append(InsertSorted(SubSeq(sorted, 1, Len(sorted) - 1), x), sorted[Len(sorted)])

RECURSIVE sort(_)
sort(s) == IF s = <<>> THEN <<>> ELSE InsertSorted(sort(SubSeq(s, 1, Len(s) - 1)), s[Len(s)])

-----------------------------------------------------------------------------
\* Filter, map, sort, slice (lines 146-162).

IsImage(x) == x.mimeType.defined /\ startsWith(x.mimeType.s, <<"i","m","a","g","e","/">>)
ToItem(x) == [id |-> x.id, name |-> x.name, mimeType |-> OrElse(x.mimeType, <<>>),
              downloadUrl |-> x.downloadUrl]
HasIdAndUrl(x) == Truthy(x.id) /\ Truthy(x.downloadUrl)

\* The items that qualify, in the order of the listing.
Qualifying(children) ==
    LET images == SelectSeq(children, IsImage)
    IN SelectSeq([i \in DOMAIN images |-> ToItem(images[i])], HasIdAndUrl)

\* The truncation left out.
sliceSkipped(s, end) == s

\* s.slice(0, end) for an integer end: a negative end counts from the end.
slice(s, end) ==
    LET k == IF end < 0 THEN (IF Len(s) + end > 0 THEN Len(s) + end ELSE 0)
             ELSE (IF end < Len(s) THEN end ELSE Len(s))
    IN SubSeq(s, 1, k)

Items(children) == slice(sort(Qualifying(children)), MAX)

-----------------------------------------------------------------------------
\* desired and orderedFileNames (lines 168-177).

FileName(id, ext) == id \o <<".">> \o ext

\* Map.set: a new key goes last, a known key keeps its place.
MapSet(entries, key, value) ==
    IF \E i \in DOMAIN entries : entries[i].fileName = key
    THEN [i \in DOMAIN entries |->
            IF entries[i].fileName = key THEN [fileName |-> key, it |-> value] ELSE entries[i]]
    ELSE Append(entries, [fileName |-> key, it |-> value])
MapHas(entries, key) == \E i \in DOMAIN entries : entries[i].fileName = key

RECURSIVE BuildDesired(_)
BuildDesired(its) ==
    IF its = <<>> THEN [desired |-> <<>>, ordered |-> <<>>]
    ELSE LET before == BuildDesired(SubSeq(its, 1, Len(its) - 1))
             it == its[Len(its)]
             ext == extFromName(it.name, it.mimeType)
         IN IF ext = <<>> THEN before
            ELSE [desired |-> MapSet(before.desired, FileName(it.id.s, ext), it),
                  ordered |-> Append(before.ordered, FileName(it.id.s, ext))]

\* The pattern without its i flag.
IsLocalImageCaseSensitive(name) ==
    \/ endsWith(name, <<".","j","p","g">>)
    \/ endsWith(name, <<".","j","p","e","g">>)
    \/ endsWith(name, <<".","p","n","g">>)
    \/ endsWith(name, <<".","w","e","b","p">>)

\* listLocalImages (lines 109-115): the names /\.(jpe?g|png|webp)$/i accepts.
IsLocalImage(name) ==
    LET n == toLowerCase(name) IN
    \/ endsWith(n, <<".","j","p","g">>)
    \/ endsWith(n, <<".","j","p","e","g">>)
    \/ endsWith(n, <<".","p","n","g">>)
    \/ endsWith(n, <<".","w","e","b","p">>)
listLocalImages == {name \in dir : IsLocalImage(name)}

-----------------------------------------------------------------------------
\* Inputs: environment values, remote children, initial directory contents.

RequiredValues == {Undefined, Str(<<>>), Str(<<"x">>)}
DeleteMissingValues == {Undefined, Str(<<"T","r","u","e">>), Str(<<"f","a","l","s","e">>),
                        Str(<<"t","r","u","e"," ">>)}
MaxImagesValues == {Undefined, Str(<<>>), Str(<<"1">>), Str(<<"-","1">>)}
IncludeExtsValues == {Undefined, Str(<<"P","N","G",","," ","g","i","f">>)}

Envs == [TENANT_ID : RequiredValues, CLIENT_ID : RequiredValues,
         CLIENT_SECRET : RequiredValues, SP_FOLDER_SHARE_URL : RequiredValues,
         DELETE_MISSING : DeleteMissingValues, MAX_IMAGES : MaxImagesValues,
         INCLUDE_EXTS : IncludeExtsValues]

Url == Str(<<"u">>)
Child(id, name, mimeType, downloadUrl) ==
    [id |-> id, name |-> name, mimeType |-> mimeType, downloadUrl |-> downloadUrl]

\* Children a folder can hold: an image named with an upper-case extension,
\* an image named without one, an image of a type the script has no extension
\* for, a subfolder, an image without a download URL.
Catalogue == {
    Child(Str(<<"A">>), <<"p","1","0",".","J","P","G">>, Str(<<"i","m","a","g","e","/","j","p","e","g">>), Url),
    Child(Str(<<"B">>), <<"p","2">>, Str(<<"i","m","a","g","e","/","p","n","g">>), Url),
    Child(Str(<<"D">>), <<"r",".","g","i","f">>, Str(<<"i","m","a","g","e","/","g","i","f">>), Url),
    Child(Str(<<"E">>), <<"s","u","b">>, Undefined, Undefined),
    Child(Str(<<"F">>), <<"t",".","p","n","g">>, Str(<<"i","m","a","g","e","/","p","n","g">>), Undefined) }

\* A listing holds each child once: ids and names are unique within a folder.
Listings ==
    UNION {{s \in [1..n -> Catalogue] : \A i, j \in 1..n : i # j => s[i] # s[j]} : n \in 0..MaxItems}

\* What the directory can hold before the first run: a file a remote item
\* maps to, an image no remote item maps to, a file that is no image.
InitialDirs == { {},
                 {<<"A",".","j","p","g">>},
                 {<<"Z",".","J","P","G">>, <<"n",".","t","x","t">>},
                 {<<"A",".","j","p","g">>, <<"Z",".","J","P","G">>, <<"n",".","t","x","t">>} }

NoCalls == [token |-> 0, share |-> 0, list |-> 0, download |-> 0]

Init ==
    /\ env \in Envs
    /\ dir \in InitialDirs
    /\ index = [written |-> FALSE, names |-> <<>>]
    /\ pc = "start"
    /\ err = ""
    /\ run = 1
    /\ remote = [known |-> FALSE, value |-> <<>>]
    /\ desired = <<>>
    /\ orderedFileNames = <<>>
    /\ di = 1
    /\ net = NoCalls
    /\ downloaded = {}
    /\ deleted = {}
    /\ wrote = FALSE
    /\ dirAtStart = dir
    /\ prev = [ok |-> FALSE, names |-> <<>>]

-----------------------------------------------------------------------------
\* The script.

\* An exception that is caught and logged, the script going on.
ThrowSwallowed(step) ==
    /\ err' = step
    /\ pc' = CASE step = "config" -> "token"
               [] step = "token" -> "resolve"
               [] step = "resolve" -> "list"
               [] step = "list" -> "download"
               [] step = "download" -> "download"
               [] OTHER -> "done"

\* An exception nothing catches: the run ends at the step that threw.
Throw(step) ==
    /\ pc' = "failed"
    /\ err' = step

\* Lines 31-35.
CheckEnv ==
    /\ pc = "start"
    /\ IF RequiredMissing
       THEN Throw("config")
       ELSE pc' = "token" /\ err' = err
    /\ UNCHANGED <<env, dir, index, run, remote, desired, orderedFileNames,
                   di, net, downloaded, deleted, wrote, dirAtStart, prev>>

\* getToken (lines 72-91): one POST; !res.ok or no access_token throws.
GetToken ==
    /\ pc = "token"
    /\ net' = [net EXCEPT !.token = @ + 1]
    /\ \E res \in [ok : BOOLEAN, access_token : {Undefined, Str(<<"t">>)}] :
         IF ~res.ok \/ ~Truthy(res.access_token)
         THEN Throw("token")
         ELSE pc' = "resolve" /\ err' = err
    /\ UNCHANGED <<env, dir, index, run, remote, desired, orderedFileNames,
                   di, downloaded, deleted, wrote, dirAtStart, prev>>

\* Lines 127-137: graphJson on the share, then the driveId / id check.
ResolveShare ==
    /\ pc = "resolve"
    /\ net' = [net EXCEPT !.share = @ + 1]
    /\ \E res \in [ok : BOOLEAN, driveId : {Undefined, Str(<<"d">>)},
                   id : {Undefined, Str(<<"f">>)}] :
         IF ~res.ok \/ ~Truthy(res.driveId) \/ ~Truthy(res.id)
         THEN Throw("resolve")
         ELSE pc' = "list" /\ err' = err
    /\ UNCHANGED <<env, dir, index, run, remote, desired, orderedFileNames,
                   di, downloaded, deleted, wrote, dirAtStart, prev>>

\* Lines 140-177: graphJson on the children, then `items` (filtered, sorted,
\* sliced), from which desired and orderedFileNames are built. The remote folder does not change between runs.
ListChildren ==
    /\ pc = "list"
    /\ net' = [net EXCEPT !.list = @ + 1]
    /\ \/ /\ Throw("list")
          /\ UNCHANGED <<remote, desired, orderedFileNames, di>>
       \/ \E children \in Listings :
            /\ remote.known => children = remote.value
            /\ remote' = [known |-> TRUE, value |-> children]
            /\ LET built == BuildDesired(Items(children)) IN
                 /\ desired' = built.desired
                 /\ orderedFileNames' = built.ordered
            /\ di' = 1
            /\ pc' = "download"
            /\ err' = err
    /\ UNCHANGED <<env, dir, index, run, downloaded, deleted, wrote, dirAtStart, prev>>

\* The download loop without its presence test.
existsSyncNever(fileName) == FALSE

\* fs.existsSync(outPath) (line 182).
existsSync(fileName) == fileName \in dir

\* One iteration of the download loop (lines 180-188): skip a file that
\* exists, else downloadToFile, which throws when the fetch or the write fails.
Download ==
    /\ pc = "download"
    /\ di <= Len(desired)
    /\ LET fileName == desired[di].fileName IN
       IF existsSync(fileName)
       THEN /\ di' = di + 1
            /\ UNCHANGED <<pc, err, dir, net, downloaded>>
       ELSE /\ net' = [net EXCEPT !.download = @ + 1]
            /\ \/ /\ Throw("download")
                  /\ UNCHANGED <<dir, downloaded, di>>
               \/ /\ dir' = dir \cup {fileName}
                  /\ downloaded' = downloaded \cup {fileName}
                  /\ di' = di + 1
                  /\ UNCHANGED <<pc, err>>
    /\ UNCHANGED <<env, index, run, remote, desired, orderedFileNames,
                   deleted, wrote, dirAtStart, prev>>

\* The delete phase run whatever DELETE_MISSING says.
FilesToDeleteAlways == {lf \in listLocalImages : ~MapHas(desired, lf)}

\* The delete phase without its desired.has test.
FilesToDeleteAllImages == IF deleteMissing THEN listLocalImages ELSE {}

\* The local files the delete phase unlinks (lines 191-199).
FilesToDelete ==
    IF deleteMissing THEN {lf \in listLocalImages : ~MapHas(desired, lf)} ELSE {}

\* Lines 190-202, entered when the download loop is over.
DeletePhase ==
    /\ pc = "download"
    /\ di > Len(desired)
    /\ dir' = dir \ FilesToDelete
    /\ deleted' = deleted \cup FilesToDelete
    /\ pc' = "write"
    /\ UNCHANGED <<env, index, err, run, remote, desired, orderedFileNames,
                   di, net, downloaded, wrote, dirAtStart, prev>>

\* writeIndexJson(orderedFileNames) (lines 117-119, 204-209).
WriteIndex ==
    /\ pc = "write"
    /\ \/ /\ index' = [written |-> TRUE, names |-> orderedFileNames]
          /\ wrote' = TRUE
          /\ pc' = "done"
          /\ err' = err
       \/ /\ Throw("write")
          /\ UNCHANGED <<index, wrote>>
    /\ UNCHANGED <<env, dir, run, remote, desired, orderedFileNames,
                   di, net, downloaded, deleted, dirAtStart, prev>>

\* The script is invoked again, with the same environment.
Rerun ==
    /\ pc \in {"done", "failed"}
    /\ run < MaxRuns
    /\ run' = run + 1
    /\ prev' = [ok |-> pc = "done", names |-> IF pc = "done" THEN index.names ELSE <<>>]
    /\ pc' = "start"
    /\ err' = ""
    /\ desired' = <<>>
    /\ orderedFileNames' = <<>>
    /\ di' = 1
    /\ net' = NoCalls
    /\ downloaded' = {}
    /\ deleted' = {}
    /\ wrote' = FALSE
    /\ dirAtStart' = dir
    /\ UNCHANGED <<env, dir, index, remote>>

Next ==
    \/ CheckEnv
    \/ GetToken
    \/ ResolveShare
    \/ ListChildren
    \/ Download
    \/ DeletePhase
    \/ WriteIndex
    \/ Rerun

Spec == Init /\ [][Next]_vars

-----------------------------------------------------------------------------
\* Vocabulary of the properties, stated on the listing and the environment
\* rather than on the script's intermediate values.

Range(s) == {s[i] : i \in DOMAIN s}

\* The qualifying items of the listed folder, in listing order.
Q == Qualifying(remote.value)
\* The pairs <<i, j>> with item i before item j in ascending display-name
\* order (listing order between equal names).
Before(q) ==
    {p \in (DOMAIN q) \X (DOMAIN q) :
        LET c == localeCompare(q[p[1]].name, q[p[2]].name)
        IN c < 0 \/ (c = 0 /\ p[1] < p[2])}
\* The number of items of `among` that come before item i.
Rank(before, among, i) == Cardinality({j \in among : <<j, i>> \in before})
\* The first MAX items of the sorted listing.
FirstN(q, before) == {i \in DOMAIN q : Rank(before, DOMAIN q, i) < MAX}
\* What items.slice(0, MAX) keeps: the first MAX, or for a negative MAX all
\* but the last -MAX.
Kept(q, before) ==
    {i \in DOMAIN q : Rank(before, DOMAIN q, i) < (IF MAX >= 0 THEN MAX ELSE Len(q) + MAX)}
ExtOf(x) == extFromName(x.name, x.mimeType)
LocalName(x) == x.id.s \o <<".">> \o ExtOf(x)
DesiredNames == {desired[k].fileName : k \in DOMAIN desired}

ImageSuffixes == { <<".","j","p","g">>, <<".","j","p","e","g">>,
                   <<".","p","n","g">>, <<".","w","e","b","p">> }
\* The name ends, letter case aside, in .jpg, .jpeg, .png or .webp.
HasImageSuffix(f) ==
    \E sfx \in ImageSuffixes :
        /\ Len(f) >= Len(sfx)
        /\ \A k \in 1..Len(sfx) : LowerChar(f[Len(f) - Len(sfx) + k]) = sfx[k]

\* DELETE_MISSING is "true" in some letter case.
MirrorDeleteAsked ==
    /\ env.DELETE_MISSING.defined
    /\ Len(env.DELETE_MISSING.s) = 4
    /\ LowerChar(env.DELETE_MISSING.s[1]) = "t"
    /\ LowerChar(env.DELETE_MISSING.s[2]) = "r"
    /\ LowerChar(env.DELETE_MISSING.s[3]) = "u"
    /\ LowerChar(env.DELETE_MISSING.s[4]) = "e"

\* One of the four required variables is absent or empty.
SomeRequiredMissing ==
    \E v \in {env.TENANT_ID, env.CLIENT_ID, env.CLIENT_SECRET, env.SP_FOLDER_SHARE_URL} :
        ~v.defined \/ Len(v.s) = 0

-----------------------------------------------------------------------------
\* C1 as stated: after a run with mirror-delete enabled that completes, the
\* files of the target directory are exactly the desired filenames.
C1_ExactMirror ==
    (pc = "done" /\ MirrorDeleteAsked) => dir = DesiredNames

\* C1 amended: after a run with mirror-delete enabled that completes, every
\* desired file is present, no other file whose name ends (letter case aside)
\* in .jpg, .jpeg, .png or .webp remains, and files with other names are the
\* ones that were there before the run.
C1_MirrorOfImages ==
    (pc = "done" /\ MirrorDeleteAsked) =>
        /\ DesiredNames \subseteq dir
        /\ \A f \in dir : HasImageSuffix(f) => f \in DesiredNames
        /\ \A f \in dirAtStart : ~HasImageSuffix(f) => f \in dir
        /\ \A f \in dir : f \in DesiredNames \/ f \in dirAtStart

\* The example of the spec: one file deleted, one downloaded, one untouched,
\* and a file that is no image left in place.
C1_Witness ==
    /\ pc = "done"
    /\ MirrorDeleteAsked
    /\ deleted # {}
    /\ downloaded # {}
    /\ \E f \in dirAtStart : f \in DesiredNames /\ f \in dir
    /\ \E f \in dir : ~HasImageSuffix(f)

\* C2: with DELETE_MISSING absent or anything but "true" in some letter case,
\* a run deletes no file: every file present before the run is still present.
C2_NeverDeletes ==
    ~MirrorDeleteAsked => (deleted = {} /\ dirAtStart \subseteq dir)

\* A completed run, DELETE_MISSING being "true " with a trailing blank, that
\* keeps a local image no remote item maps to.
C2_Witness ==
    /\ pc = "done"
    /\ env.DELETE_MISSING = Str(<<"t","r","u","e"," ">>)
    /\ \E f \in dirAtStart : HasImageSuffix(f) /\ f \notin DesiredNames /\ f \in dir

\* C3: a run made after a completed run, on the same listing and environment
\* with mirror-delete disabled, downloads nothing and writes the same manifest.
C3_Idempotent ==
    (run > 1 /\ prev.ok /\ ~MirrorDeleteAsked) =>
        /\ net.download = 0
        /\ downloaded = {}
        /\ pc = "done" => (index.names = prev.names /\ wrote)

\* A second run completes after a first run that synced two files.
C3_Witness ==
    /\ run = 2
    /\ prev.ok
    /\ ~MirrorDeleteAsked
    /\ pc = "done"
    /\ Len(index.names) = 2
    /\ \E f \in Range(index.names) : f \notin UNION InitialDirs

\* C4: with a required variable absent or empty the run fails at the check,
\* having made no network call and changed no file.
C4_FailsBeforeNetwork ==
    SomeRequiredMissing =>
        /\ pc \in {"start", "failed"}
        /\ pc = "failed" => err = "config"
        /\ net = NoCalls
        /\ dir = dirAtStart
        /\ downloaded = {}
        /\ deleted = {}
        /\ ~wrote
        /\ ~index.written

\* The run has failed with only the folder URL empty.
C4_Witness ==
    /\ pc = "failed"
    /\ err = "config"
    /\ Truthy(env.TENANT_ID) /\ Truthy(env.CLIENT_ID) /\ Truthy(env.CLIENT_SECRET)
    /\ env.SP_FOLDER_SHARE_URL = Str(<<>>)

\* C5: the run stops at the first failure: after a failed step no later step
\* of token -> resolve -> list -> download -> delete -> write has run; after a
\* failed download nothing more is downloaded, nothing is deleted, the manifest
\* is not written and the files downloaded before remain.
C5_StopsAtFirstFailure ==
    /\ err # "" => pc = "failed"
    /\ err = "token" => (net.share = 0 /\ net.list = 0)
    /\ err = "resolve" => net.list = 0
    /\ err \in {"config", "token", "resolve", "list"} =>
          (net.download = 0 /\ downloaded = {} /\ dir = dirAtStart)
    /\ err = "download" =>
          /\ net.download = Cardinality(downloaded) + 1
          /\ downloaded \subseteq dir
          /\ di <= Len(desired)
          /\ \A k \in di..Len(desired) : desired[k].fileName \notin downloaded
          /\ dir = dirAtStart \cup downloaded
    /\ err \in {"config", "token", "resolve", "list", "download"} => deleted = {}
    /\ err # "" => ~wrote

\* A download fails after another one succeeded, with a local image the delete
\* phase would have removed.
C5_Witness ==
    /\ err = "download"
    /\ downloaded # {}
    /\ MirrorDeleteAsked
    /\ \E f \in dir : HasImageSuffix(f) /\ f \notin DesiredNames

\* C6 as stated: the manifest lists the filenames of exactly the first N
\* qualifying items in ascending display-name order, and exactly those items
\* are downloaded.
C6_FirstNListedAndDownloaded ==
    pc = "done" =>
        LET q == Q
            before == Before(q)
            firstN == FirstN(q, before)
        IN /\ Len(index.names) = Cardinality(firstN)
           /\ \A k \in DOMAIN index.names :
                 \E i \in firstN :
                     /\ Rank(before, firstN, i) = k - 1
                     /\ index.names[k] = LocalName(q[i])
           /\ downloaded = Range(index.names)

\* C6 amended: the manifest lists, in ascending display-name order, the
\* filenames of those items among the first N qualifying items of the sorted
\* listing (for a negative N: among all but the last -N) for which an extension
\* is determined, and the files downloaded are those of them that were not in
\* the target directory when the run started.
C6_ManifestOfNamedFirstN ==
    pc = "done" =>
        LET q == Q
            before == Before(q)
            kept == Kept(q, before)
            named == {i \in kept : ExtOf(q[i]) # <<>>}
        IN /\ Len(index.names) = Cardinality(named)
           /\ \A k \in DOMAIN index.names :
                 \E i \in named :
                     /\ index.names[k] = LocalName(q[i])
                     /\ Rank(before, named, i) = k - 1
           /\ downloaded = {LocalName(q[i]) : i \in named} \ dirAtStart

\* A completed run whose listing was not in display-name order and was
\* truncated, the manifest naming the item that sorts first.
C6_Witness ==
    /\ pc = "done"
    /\ Len(index.names) >= 1
    /\ Kept(Q, Before(Q)) # DOMAIN Q
    /\ \E i \in DOMAIN Q :
          /\ i > 1
          /\ Rank(Before(Q), DOMAIN Q, i) = 0
          /\ index.names[1] = LocalName(Q[i])

\* C7 as stated, for a maximum of at least one item: an item beyond the cutoff
\* is not downloaded, not in the manifest, and its local file, if present, is
\* not deleted by the run.
C7_BeyondCutoffUntouched ==
    (pc = "done" /\ MAX >= 1) =>
        LET q == Q
            beyond == DOMAIN q \ Kept(q, Before(q))
        IN \A i \in beyond :
              ExtOf(q[i]) # <<>> =>
                  /\ LocalName(q[i]) \notin downloaded
                  /\ LocalName(q[i]) \notin Range(index.names)
                  /\ LocalName(q[i]) \in dirAtStart => LocalName(q[i]) \in dir

\* C7 amended: an item beyond the cutoff is not downloaded and not in the
\* manifest, and its local file, if present, is not deleted by the run when
\* mirror-delete is disabled.
C7_BeyondCutoffDropped ==
    pc = "done" =>
        LET q == Q
            beyond == DOMAIN q \ Kept(q, Before(q))
        IN \A i \in beyond :
              ExtOf(q[i]) # <<>> =>
                  /\ LocalName(q[i]) \notin downloaded
                  /\ LocalName(q[i]) \notin Range(index.names)
                  /\ (~MirrorDeleteAsked /\ LocalName(q[i]) \in dirAtStart)
                        => LocalName(q[i]) \in dir

\* A completed run without mirror-delete, the file of an item beyond the
\* cutoff being in the directory from before.
C7_Witness ==
    /\ pc = "done"
    /\ ~MirrorDeleteAsked
    /\ \E i \in DOMAIN Q \ Kept(Q, Before(Q)) :
          ExtOf(Q[i]) # <<>> /\ LocalName(Q[i]) \in dirAtStart

\* C8 as stated: the items downloaded and the manifest entries never number
\* more than the configured maximum, and with MAX_IMAGES absent or empty the
\* cap is 200 (so a listing of fewer items is not truncated).
C8_CapIsMaxOrDefault ==
    pc = "done" =>
        /\ Truthy(env.MAX_IMAGES) =>
              (Len(index.names) <= MAX /\ Cardinality(downloaded) <= MAX)
        /\ ~Truthy(env.MAX_IMAGES) =>
              (Len(Q) <= DefaultMax =>
                  Len(index.names) = Cardinality({i \in DOMAIN Q : ExtOf(Q[i]) # <<>>}))

\* C9: after a completed run every filename of the manifest is a file of the
\* target directory, and the manifest entries are the keys of the desired
\* mapping, each listed once.
C9_ManifestPresent ==
    pc = "done" =>
        /\ Range(index.names) \subseteq dir
        /\ Range(index.names) = DesiredNames
        /\ Len(index.names) = Cardinality(DesiredNames)

\* A completed run with mirror-delete that deleted a file and lists two.
C9_Witness ==
    /\ pc = "done"
    /\ MirrorDeleteAsked
    /\ deleted # {}
    /\ Len(index.names) = 2

\* C10 as stated: every filename of the desired mapping and of the manifest is
\* {id}.{ext} with ext in the allowed set.
C10_OnlyAllowedExts ==
    /\ \A k \in DOMAIN desired :
          \E e \in allowedExts : desired[k].fileName = desired[k].it.id.s \o <<".">> \o e
    /\ index.written =>
          \A k \in DOMAIN index.names :
              \E e \in allowedExts : endsWith(index.names[k], <<".">> \o e)

====
